---- MODULE Spec2Model ----
(***************************************************************************)
(* Session execution orchestrator of kumiai: SessionExecutor (enqueue,     *)
(* interrupt, activation task and its cleanup), Execution (the message     *)
(* generator that forwards queued inputs to the worker, and run()), the    *)
(* SessionStatusManager writes and the two status hooks.                   *)
(*                                                                         *)
(* One session is modelled.  Every coroutine is a process; one action is   *)
(* the code between two suspension points (an await that can yield to the  *)
(* event loop), so actions of different coroutines interleave exactly      *)
(* where asyncio lets them.                                                *)
(***************************************************************************)
EXTENDS Integers, Sequences, FiniteSets, TLC

\* ---------------------------------------------------------------- bounds
MaxCallers == 2      \* coroutines that call enqueue / interrupt
MaxEnqueue == 3      \* enqueue calls in one behaviour
MaxInterrupt == 1    \* interrupt calls in one behaviour
MaxTasks == 2        \* activation tasks created in one behaviour

Callers == 1..MaxCallers
Tasks == 1..MaxTasks
NoTask == 0
Free == 0
NoItem == 0
NoError == "none"

\* Exceptions a worker stream or the context load can raise, and str(e).
Errors == {"TimeoutError", "ClaudeExecutionError"}
StrOf(e) == IF e = "TimeoutError" THEN "" ELSE "Session not found"

VARIABLES
    queue,          \* the session's asyncio.Queue (FIFO of message numbers)
    numEnq,         \* queue.put calls so far; the n-th put carries message n
    numInt,         \* interrupt calls so far
    cpc,            \* caller -> position in enqueue / interrupt
    overlap,        \* caller -> an enqueue ran while its interrupt was running
    session_lock,   \* _session_locks[S]: Free or the caller that holds it
    executions,     \* _executions[S]: the registered task, or NoTask
    numTasks,       \* tasks created so far
    task,           \* task -> [pc, cancel, failed, outcome]
    gen,            \* task -> _message_generator state [pc, item, qdone, edone]
    exe,            \* task -> Execution fields and worker turn state
    session,        \* persisted session entity [status, error_message]
    slog,           \* task -> status changes written by the task and its hooks
    persisted,      \* "user input received" records committed, in order
    broadcast,      \* user-message events broadcast, in order
    forwarded       \* inputs yielded to the worker stream, in order

\* The output loop of one activation (Execution._process_responses).  The
\* orchestrator sees of it only the end of the stream, so the loop has a
\* specification of its own (BufSpec) and is at rest in Spec.
VARIABLES
    stream,         \* the worker's output stream: "idle", "open", "closed", "failed"
    events,         \* the stream events the loop has handled, in arrival order
    buffers,        \* TextBufferManager: block index -> text accumulated
    emitted,        \* consolidated content events yielded by the loop, in order
    turns           \* MessageCompleteEvents yielded by the loop, in order

\* The execution registry of the hooks module.  No step of the orchestrator
\* writes it; the calls that do have a specification of their own (RegSpec).
VARIABLES
    pending,        \* _pending_executions: internal ids in insertion order
    registry,       \* _execution_registry: external id -> execution
    captured,       \* sessions whose worker client has captured its external id
    hook,           \* the _get_or_register_execution call that is probing
    ret,            \* the registry call just completed and what it returned
    unregistered    \* internal id -> unregistered and not registered since

\* The SessionStatusManager instances and the persisted row of the session
\* they write (SmSpec, StatusSpec).  The orchestrator specification keeps of it only the status and
\* the error message (session).
VARIABLES
    db,             \* the persisted session entity
    sm_lock,        \* manager -> its _locks[S]: Free or the holder
    call,           \* caller -> the status manager call it is in
    outcome,        \* caller -> how its last call ended
    writes,         \* statuses committed by the manager, in order
    bcasts,         \* SessionStatusEvent statuses broadcast, in order
    numCalls        \* status manager calls made so far

\* The resume-token query of the executor (TokenSpec) and the PreToolUse
\* callback that injects the session context (InjectSpec).
VARIABLES
    client,         \* the live worker client of the session, or NoClient
    answer,         \* what get_claude_session_id returned, until it is taken
    capture,        \* _process_responses: the immediate save of the external id
    ctx,            \* what the registry and the database hold for a callback
    hook_in,        \* input_data of the last PreToolUse callback
    hook_out        \* what inject_session_context_hook returned for it

\* The persistence handle of one activation, context["db_session"], and the
\* lock created with it (DbSpec).
VARIABLES
    db_lock,        \* context["db_lock"]: Free or the coroutine that holds it
    db_session,     \* operations in progress on context["db_session"]
    es,             \* _execute_session: position, events seen, completion event
    mgen            \* the query task running _message_generator

coreVars == <<queue, numEnq, numInt, cpc, overlap, session_lock, executions,
              numTasks, task, gen, exe, session, slog, persisted, broadcast,
              forwarded>>
bufVars == <<stream, events, buffers, emitted, turns>>
regVars == <<pending, registry, captured, hook, ret, unregistered>>
smVars == <<db, sm_lock, call, outcome, writes, bcasts, numCalls>>
askVars == <<client, answer, capture>>
injVars == <<ctx, hook_in, hook_out>>
dbVars == <<db_lock, db_session, es, mgen>>
auxVars == <<bufVars, regVars, smVars, askVars, injVars, dbVars>>
\* What the steps of the output loop, of the registry, of the status
\* manager, of the token query and of the injecting callback leave
\* unchanged.
exceptBuf == <<coreVars, regVars, smVars, askVars, injVars, dbVars>>
exceptReg == <<coreVars, bufVars, smVars, askVars, injVars, dbVars>>
exceptSm == <<coreVars, bufVars, regVars, askVars, injVars, dbVars>>
exceptAsk == <<coreVars, bufVars, regVars, injVars, dbVars>>
exceptInj == <<coreVars, bufVars, regVars, smVars, askVars, dbVars>>
exceptDb == <<coreVars, bufVars, regVars, smVars, askVars, injVars>>

vars == <<coreVars, auxVars>>

callerVars == <<numEnq, numInt, cpc, overlap>>
logVars == <<persisted, broadcast, forwarded>>

\* The elements of a sequence.
Range(q) == {q[i] : i \in 1..Len(q)}

\* ------------------------------------------------------- status manager
\* update_to_working that leaves the status as it was.
update_to_working_Keep(e) == e

\* update_to_working that clears the error message whatever the status.
update_to_working_ClearAlways(e) ==
    [status |-> "WORKING", error_message |-> "none"]

\* SessionStatusManager.update_to_working on an existing session entity.
update_to_working(e) ==
    [status |-> "WORKING",
     error_message |-> IF e.status = "ERROR" THEN "none" ELSE e.error_message]

\* update_after_execution whose success branch writes nothing.
update_after_execution_NoIdle(e, err) ==
    IF err # NoError
    THEN [status |-> "ERROR", error_message |-> StrOf(err)]
    ELSE e

\* update_after_execution whose error branch resets to IDLE.
update_after_execution_ErrIdle(e, err) ==
    [status |-> "IDLE", error_message |-> "none"]

\* update_after_execution that writes nothing.
update_after_execution_Keep(e, err) == e

\* SessionStatusManager.update_after_execution; err is NoError on success.
update_after_execution(e, err) ==
    IF err # NoError
    THEN [status |-> "ERROR", error_message |-> StrOf(err)]
    ELSE [status |-> "IDLE", error_message |-> "none"]

\* reset_to_idle that writes nothing.
reset_to_idle_Keep(e) == e

\* SessionStatusManager.reset_to_idle.
reset_to_idle(e) == [status |-> "IDLE", error_message |-> "none"]

\* The status changes a task has written: a value is appended when it
\* differs from the last one written.
Logged(log, s) == IF log # <<>> /\ log[Len(log)] = s THEN log ELSE Append(log, s)

\* ----------------------------------------------------------------- Init
InitTask == [pc |-> "none", cancel |-> FALSE, failed |-> FALSE, outcome |-> "none"]
InitGen == [pc |-> "none", item |-> NoItem, qdone |-> FALSE, edone |-> FALSE]
InitExe == [completion_event |-> FALSE, is_processing |-> FALSE,
            worker |-> "idle", unsubmitted |-> 0]
\* The Execution once run() has left its response loop: the completion event
\* is set and the worker takes no further prompt.
StreamClosed == [completion_event |-> TRUE, is_processing |-> FALSE,
                 worker |-> "idle", unsubmitted |-> 0]

CoreInit ==
    /\ queue = <<>>
    /\ numEnq = 0
    /\ numInt = 0
    /\ cpc = [c \in Callers |-> "idle"]
    /\ overlap = [c \in Callers |-> FALSE]
    /\ session_lock = Free
    /\ executions = NoTask
    /\ numTasks = 0
    /\ task = [t \in Tasks |-> InitTask]
    /\ gen = [t \in Tasks |-> InitGen]
    /\ exe = [t \in Tasks |-> InitExe]
    /\ session = [status |-> "IDLE", error_message |-> "none"]
    /\ slog = [t \in Tasks |-> <<>>]
    /\ persisted = <<>>
    /\ broadcast = <<>>
    /\ forwarded = <<>>

\* No output loop is being followed.
BufIdle ==
    /\ stream = "idle"
    /\ events = <<>>
    /\ buffers = <<>>
    /\ emitted = <<>>
    /\ turns = <<>>

\* Sessions known to the registry, the external ids the worker assigns, and
\* the external id the worker of a session reports once it is captured.
MaxSessions == 2
InternalIds == 1..MaxSessions
ExternalIds == 1..MaxSessions
WorkerId(a) == a
NoExec == 0
NoCall == [op |-> "none", arg |-> 0, execution |-> NoExec, from |-> "none"]
NoHook == [pc |-> "idle", x |-> 0, todo |-> <<>>]

\* Both pools are empty and no hook is running.
RegIdle ==
    /\ pending = <<>>
    /\ registry = <<>>
    /\ captured = {}
    /\ hook = NoHook
    /\ ret = NoCall
    /\ unregistered = [a \in InternalIds |-> FALSE]

\* A status manager call: the operation, its arguments, where it is, and
\* the entity it has loaded.
MaxSmCallers == 2    \* coroutines that call the status manager
MaxSmCalls == 2      \* status manager calls in one behaviour
SmCallers == 1..MaxSmCallers
\* The two SessionStatusManager objects of the program: the one the executor
\* builds for itself and the module singleton the hooks import.
Managers == {"executor", "hooks"}
NoToken == "none"
IdleEntity == [exists |-> TRUE, status |-> "IDLE", error_message |-> "none",
               claude_session_id |-> NoToken]
NoEntity == [exists |-> FALSE, status |-> "IDLE", error_message |-> "none",
             claude_session_id |-> NoToken]
IdleCall == [pc |-> "idle", mgr |-> "none", op |-> "none", err |-> NoError,
             tok |-> NoToken, clear |-> FALSE, entity |-> NoEntity]

\* No status manager call is made.
SmIdle ==
    /\ db = IdleEntity
    /\ sm_lock = [m \in Managers |-> Free]
    /\ call = [c \in SmCallers |-> IdleCall]
    /\ outcome = [c \in SmCallers |-> "none"]
    /\ writes = <<>>
    /\ bcasts = <<>>
    /\ numCalls = 0

\* No worker client, no query; no callback.
NoClient == [live |-> FALSE, session_id |-> NoToken]
Unasked == "unasked"
NoCapture == [pc |-> "none", saved |-> FALSE, attempts |-> 0, units |-> 0,
              emitted |-> 0, tok |-> NoToken, first |-> 0, at |-> 0,
              committed |-> NoToken, end |-> "none"]
AskIdle == client = NoClient /\ answer = Unasked /\ capture = NoCapture
NoCtx == [hit |-> FALSE, project_id |-> "none", source_instance_id |-> "none",
          internal_id |-> "none", db_project_id |-> "none"]
\* tool_input and updatedInput: parameter -> its value, or Absent.
ToolKeys == {"project_id", "source_instance_id", "message"}
Absent == "absent"
NoParams == [k \in ToolKeys |-> Absent]
NoInput == [hook_event_name |-> "none", session_id |-> "none",
            tool_input |-> NoParams]
\* The hook's answer: none yet, the empty dict, or a decision with the
\* updated input.
NoOutput == [answered |-> FALSE, empty |-> TRUE,
             permissionDecision |-> "none", updatedInput |-> NoParams]
EmptyOutput == [NoOutput EXCEPT !.answered = TRUE]
InjIdle == ctx = NoCtx /\ hook_in = NoInput /\ hook_out = NoOutput

\* No activation has loaded its context: no handle, no lock, no query task.
DbFree == "free"
DbIdle ==
    /\ db_lock = DbFree
    /\ db_session = {}
    /\ es = [pc |-> "none", op |-> "none", events |-> 0, failed |-> FALSE,
             completion_event |-> FALSE]
    /\ mgen = [pc |-> "none", items |-> 0, failed |-> FALSE]

Init == CoreInit /\ BufIdle /\ RegIdle /\ SmIdle /\ AskIdle /\ InjIdle /\ DbIdle

\* ------------------------------------------------------------- helpers
AtRest(c) == cpc[c] = "idle"
InEnqueue(c) == cpc[c] = "enq_trigger"
InInterrupt(c) == cpc[c] \in {"int_clear", "int_lock", "int_await", "int_status"}

\* asyncio.Task.done()
Done(t) == task[t].pc = "done"
\* The task has left its response loop for the except branch or beyond.
LeftLoop(t) == task[t].pc \in {"except", "close", "cleanup", "done"}
\* The worker client takes up prompts and fires hooks: while the task reads
\* its stream, and after the task left the loop on a failure of its own
\* (the client is kept, executor.py 378-383, until an interrupt removes it).
WorkerAlive(t) == task[t].pc = "run" \/ (LeftLoop(t) /\ task[t].failed)
\* a task that was created and has not finished
Running(t) == task[t].pc \notin {"none", "done"}

\* is_processing that does not look at task.done().
is_processing_Registered == executions # NoTask

\* SessionExecutor.is_processing
is_processing == executions # NoTask /\ ~Done(executions)

\* --------------------------------------------------------------- enqueue
\* enqueue up to the first suspension: ensure queue, queue.put (never blocks
\* on an unbounded queue), then the queue-status broadcast is awaited.
enqueue_put(c) ==
    /\ AtRest(c)
    /\ numEnq < MaxEnqueue
    /\ numEnq' = numEnq + 1
    /\ queue' = Append(queue, numEnq + 1)
    /\ cpc' = [cpc EXCEPT ![c] = "enq_trigger"]
    /\ overlap' = [d \in Callers |-> InInterrupt(d)  \/ overlap[d]]
    /\ UNCHANGED auxVars
    /\ UNCHANGED <<numInt, session_lock, executions, numTasks, task, gen, exe,
                   session, slog, logVars>>

\* A check that always starts a task.
StartNeeded_Always == TRUE

\* The check of _trigger_execution_if_needed: start unless a task is
\* registered and not done.
StartNeeded == ~(executions # NoTask /\ ~Done(executions))

\* _trigger_execution_if_needed: under the session lock, check and create.
trigger_execution_if_needed(c) ==
    /\ cpc[c] = "enq_trigger"
    /\ session_lock = Free
    /\ IF StartNeeded
       THEN /\ numTasks < MaxTasks
            /\ numTasks' = numTasks + 1
            /\ executions' = numTasks + 1
            /\ task' = [task EXCEPT ![numTasks + 1].pc = "created"]
       ELSE UNCHANGED <<numTasks, executions, task>>
    /\ cpc' = [cpc EXCEPT ![c] = "idle"]
    /\ UNCHANGED auxVars
    /\ UNCHANGED <<queue, numEnq, numInt, overlap, session_lock, gen, exe,
                   session, slog, logVars>>

\* ------------------------------------------------------------- interrupt
\* interrupt up to the end of _interrupt_claude_client: client.interrupt and
\* remove_client touch only the worker client.  A client that a failed
\* activation left running is gone after it.
interrupt_client(c) ==
    /\ AtRest(c)
    /\ numInt < MaxInterrupt
    /\ numInt' = numInt + 1
    /\ cpc' = [cpc EXCEPT ![c] = "int_clear"]
    /\ overlap' = [overlap EXCEPT ![c] = \E d \in Callers : InEnqueue(d)]
    /\ task' = [t \in Tasks |->
                  IF LeftLoop(t) THEN [task[t] EXCEPT !.failed = FALSE]
                  ELSE task[t]]
    /\ exe' = [t \in Tasks |->
                 IF LeftLoop(t) /\ task[t].failed
                 THEN [exe[t] EXCEPT !.worker = "idle", !.unsubmitted = 0]
                 ELSE exe[t]]
    /\ UNCHANGED auxVars
    /\ UNCHANGED <<queue, numEnq, session_lock, executions, numTasks, gen,
                   session, slog, logVars>>

\* MessageQueueProcessor.clear_queue: drop every pending item.
clear_queue(q) == <<>>

interrupt_clear_queue(c) ==
    /\ cpc[c] = "int_clear"
    /\ queue' = clear_queue(queue)
    /\ cpc' = [cpc EXCEPT ![c] = "int_lock"]
    /\ UNCHANGED auxVars
    /\ UNCHANGED <<numEnq, numInt, overlap, session_lock, executions, numTasks,
                   task, gen, exe, session, slog, logVars>>

\* An interrupt that leaves the entry in place.
interrupt_del_Keep(ex) == ex

\* interrupt, line 126: del self._executions[session_id].
interrupt_del(ex) == NoTask

\* interrupt, lines 116-126: take the session lock; a registered task that is
\* not done is cancelled and awaited with the lock held, otherwise the entry
\* (if any) is deleted at once.
interrupt_lock(c) ==
    /\ cpc[c] = "int_lock"
    /\ session_lock = Free
    /\ IF executions # NoTask /\ ~Done(executions)
       THEN /\ task' = [task EXCEPT ![executions].cancel = TRUE]
            /\ session_lock' = c
            /\ cpc' = [cpc EXCEPT ![c] = "int_await"]
            /\ UNCHANGED executions
       ELSE /\ executions' = interrupt_del(executions)
            /\ cpc' = [cpc EXCEPT ![c] = "int_status"]
            /\ UNCHANGED <<task, session_lock>>
    /\ UNCHANGED auxVars
    /\ UNCHANGED <<queue, numEnq, numInt, overlap, numTasks, gen, exe, session,
                   slog, logVars>>

\* interrupt, lines 123-126: the awaited task has finished; delete the entry
\* and release the lock.
interrupt_await_task(c) ==
    /\ cpc[c] = "int_await"
    /\ session_lock = c
    /\ Done(executions)
    /\ executions' = interrupt_del(executions)
    /\ session_lock' = Free
    /\ cpc' = [cpc EXCEPT ![c] = "int_status"]
    /\ UNCHANGED auxVars
    /\ UNCHANGED <<queue, numEnq, numInt, overlap, numTasks, task, gen, exe,
                   session, slog, logVars>>

\* interrupt, line 129: _update_session_status_after_execution(S, None),
\* then interrupt returns.
interrupt_status(c) ==
    /\ cpc[c] = "int_status"
    /\ session' = update_after_execution(session, NoError)
    /\ cpc' = [cpc EXCEPT ![c] = "idle"]
    /\ overlap' = [overlap EXCEPT ![c] = FALSE]
    /\ UNCHANGED auxVars
    /\ UNCHANGED <<queue, numEnq, numInt, session_lock, executions, numTasks,
                   task, gen, exe, slog, logVars>>

\* ------------------------------------------------------- activation task
\* _execute_session, line 197: the task starts and marks the session WORKING.
execute_session_start(t) ==
    /\ task[t].pc = "created"
    /\ ~task[t].cancel
    /\ session' = update_to_working(session)
    /\ slog' = [slog EXCEPT ![t] = Logged(@, session'.status)]
    /\ task' = [task EXCEPT ![t].pc = "load"]
    /\ UNCHANGED auxVars
    /\ UNCHANGED <<queue, callerVars, session_lock, executions, numTasks, gen,
                   exe, logVars>>

\* _execute_session, lines 200-222: the context is loaded, the Execution is
\* created and run() starts the query task, whose message generator begins
\* at its first queue.get(); or loading raises.
execute_session_load(t) ==
    /\ task[t].pc = "load"
    /\ ~task[t].cancel
    /\ \/ /\ task' = [task EXCEPT ![t].pc = "run"]
          /\ gen' = [gen EXCEPT ![t].pc = "first"]
       \/ /\ task' = [task EXCEPT ![t].pc = "except"]
          /\ UNCHANGED gen
    /\ UNCHANGED auxVars
    /\ UNCHANGED <<queue, callerVars, session_lock, executions, numTasks, exe,
                   session, slog, logVars>>

\* Execution.run, lines 62-66: the worker's output stream ends, normally or
\* with an exception; the finally block sets the completion event and run()
\* waits for the query task.
worker_stream_end(t) ==
    /\ task[t].pc = "run"
    /\ ~task[t].cancel
    /\ \E failed \in BOOLEAN :
          task' = [task EXCEPT ![t].pc = "join", ![t].failed = failed]
    /\ exe' = [exe EXCEPT ![t] = StreamClosed]
    /\ UNCHANGED auxVars
    /\ UNCHANGED <<queue, callerVars, session_lock, executions, numTasks, gen,
                   session, slog, logVars>>

\* _execute_session, lines 222-246: saving or broadcasting an event that
\* run() yielded raises.  The exception leaves the loop body for the except
\* branch while run() is suspended at its yield, and nothing joins the
\* query task: the generator object left behind is finalized by the event
\* loop (aclose), which runs the finally block of run(), lines 64-67, before
\* the activation task resumes from its next await.  The completion event
\* is set; the generator goes on until it next looks at it.  The worker
\* produces events while it is responding to a prompt, and it goes on after
\* the failure (its stream has not ended) unless an interrupt under way has
\* removed the client.
event_handling_raises(t) ==
    /\ task[t].pc = "run"
    /\ ~task[t].cancel
    /\ exe[t].worker = "busy"
    /\ task' = [task EXCEPT ![t].pc = "except",
                             ![t].failed = ~\E c \in Callers : InInterrupt(c)]
    /\ exe' = [exe EXCEPT ![t].completion_event = TRUE]
    /\ UNCHANGED auxVars
    /\ UNCHANGED <<queue, callerVars, session_lock, executions, numTasks, gen,
                   session, slog, logVars>>

\* client.query(generator): the query task ends when the message generator
\* is exhausted.
QueryDone(t) == gen[t].pc = "done"

\* Execution.run, line 67: the query task is joined and run() finishes; the
\* task goes on to the commit, to the except branch, or (cancelled) to the
\* finally block.
run_join(t) ==
    /\ task[t].pc = "join"
    /\ ~task[t].cancel
    /\ QueryDone(t)
    /\ task' = [task EXCEPT ![t].pc =
                  IF task[t].outcome = "cancelled" THEN "close"
                  ELSE IF task[t].failed THEN "except"
                  ELSE "status_ok",
                            ![t].failed = FALSE]
    /\ UNCHANGED auxVars
    /\ UNCHANGED <<queue, callerVars, session_lock, executions, numTasks, gen,
                   exe, session, slog, logVars>>

\* _execute_session, lines 249-253: commit, then status IDLE.
execute_session_success(t) ==
    /\ task[t].pc = "status_ok"
    /\ ~task[t].cancel
    /\ session' = update_after_execution(session, NoError)
    /\ slog' = [slog EXCEPT ![t] = Logged(@, session'.status)]
    /\ task' = [task EXCEPT ![t].pc = "close", ![t].outcome = "ok"]
    /\ UNCHANGED auxVars
    /\ UNCHANGED <<queue, callerVars, session_lock, executions, numTasks, gen,
                   exe, logVars>>

\* _execute_session, lines 255-270: rollback, status ERROR, re-raise.
execute_session_except(t) ==
    /\ task[t].pc = "except"
    /\ ~task[t].cancel
    /\ \E e \in Errors : session' = update_after_execution(session, e)
    /\ slog' = [slog EXCEPT ![t] = Logged(@, session'.status)]
    /\ task' = [task EXCEPT ![t].pc = "close", ![t].outcome = "error"]
    /\ UNCHANGED auxVars
    /\ UNCHANGED <<queue, callerVars, session_lock, executions, numTasks, gen,
                   exe, logVars>>

\* A cleanup that leaves the entry in place.
cleanup_execution_Keep(ex) == ex

\* _cleanup_execution, lines 287-291: the entry of the session is deleted.
cleanup_execution(ex) == NoTask

\* "async with lock" that is entered whoever holds the lock.
lock_acquired_Always(l) == TRUE

\* _cleanup_execution, line 288: "async with lock" is entered when the lock
\* is free.
lock_acquired(l) == l = Free

\* _execute_session, lines 272-277, and _cleanup_execution: the db session
\* is closed and _cleanup_execution asks for the session lock.  With the lock
\* free the entry is deleted and the task ends; otherwise the task waits
\* (pc "cleanup") until the lock is released.
execute_session_finally(t) ==
    /\ task[t].pc \in {"close", "cleanup"}
    /\ ~task[t].cancel
    /\ session_lock = Free \/ task[t].pc = "close"
    /\ IF lock_acquired(session_lock)
       THEN /\ executions' = cleanup_execution(executions)
            /\ task' = [task EXCEPT ![t].pc = "done"]
       ELSE /\ task' = [task EXCEPT ![t].pc = "cleanup"]
            /\ UNCHANGED executions
    /\ UNCHANGED auxVars
    /\ UNCHANGED <<queue, callerVars, session_lock, numTasks, gen, exe, session,
                   slog, logVars>>

\* task.cancel() takes effect at the suspension point the task is at:
\*  - a task that never ran ends without entering its body;
\*  - inside run(), the finally block of run() sets the completion event and
\*    waits for the query task; while waiting for the query task, the
\*    cancellation is passed on to the query task and its generator;
\*  - CancelledError is not an Exception: the except branch is skipped and
\*    the finally block of _execute_session runs (close, then cleanup);
\*  - inside the finally block (close, or the wait for the lock) the
\*    CancelledError leaves the block and the task ends, still registered.
task_cancelled(t) ==
    /\ task[t].cancel
    /\ Running(t)
    /\ LET p == task[t].pc IN
       /\ task' = [task EXCEPT ![t].cancel = FALSE,
                               ![t].outcome = "cancelled",
                               ![t].pc = CASE p = "created" -> "done"
                                           [] p = "run" -> "join"
                                           [] p \in {"close", "cleanup"} -> "done"
                                           [] OTHER -> "close"]
       /\ exe' = IF p = "run" THEN [exe EXCEPT ![t] = StreamClosed] ELSE exe
       /\ gen' = IF p = "join" THEN [gen EXCEPT ![t] = [InitGen EXCEPT !.pc = "done"]]
                 ELSE gen
    /\ UNCHANGED auxVars
    /\ UNCHANGED <<queue, callerVars, session_lock, executions, numTasks,
                   session, slog, logVars>>

\* ---------------------------------------------------- message generator
\* A generator that yields the item before saving and broadcasting it.
GenStages_YieldFirst == <<"yield", "save", "bcast">>

\* What _message_generator does with an item in hand, in the order of lines
\* 84-88 and 128-132: _save_and_broadcast_user_message saves and commits the
\* record, broadcasts the UserMessageEvent, and only then the item is yielded.
GenStages == <<"save", "bcast", "yield">>

StageAfter(p) ==
    LET n == Len(GenStages)
        i == CHOOSE j \in 1..n : GenStages[j] = p
    IN IF i < n THEN GenStages[i + 1] ELSE "race"

\* The generator after finishing stage p of its item.
GenAdvance(g) ==
    IF StageAfter(g.pc) = "race"
    THEN [pc |-> "race", item |-> NoItem, qdone |-> FALSE, edone |-> FALSE]
    ELSE [g EXCEPT !.pc = StageAfter(g.pc)]

\* _message_generator, line 76: the first item is awaited with a plain
\* queue.get(), which returns only when the queue holds an item.
message_generator_first(t) ==
    /\ gen[t].pc = "first"
    /\ queue # <<>>
    /\ gen' = [gen EXCEPT ![t].pc = GenStages[1], ![t].item = Head(queue)]
    /\ queue' = Tail(queue)
    /\ UNCHANGED auxVars
    /\ UNCHANGED <<callerVars, session_lock, executions, numTasks, task, exe,
                   session, slog, logVars>>

\* _save_and_broadcast_user_message, lines 300-316: the record is saved and
\* committed under the db lock.
message_generator_save(t) ==
    /\ gen[t].pc = "save"
    /\ persisted' = Append(persisted, gen[t].item)
    /\ gen' = [gen EXCEPT ![t] = GenAdvance(@)]
    /\ UNCHANGED auxVars
    /\ UNCHANGED <<queue, callerVars, session_lock, executions, numTasks, task,
                   exe, session, slog, broadcast, forwarded>>

\* _save_and_broadcast_user_message, lines 325-342: the UserMessageEvent is
\* broadcast.
message_generator_broadcast(t) ==
    /\ gen[t].pc = "bcast"
    /\ broadcast' = Append(broadcast, gen[t].item)
    /\ gen' = [gen EXCEPT ![t] = GenAdvance(@)]
    /\ UNCHANGED auxVars
    /\ UNCHANGED <<queue, callerVars, session_lock, executions, numTasks, task,
                   exe, session, slog, persisted, forwarded>>

\* _message_generator, lines 88 and 132: the formatted message is yielded to
\* the worker's input stream.  When the consumer asks for the next item
\* (task_done, queue-status broadcast) the generator creates the two racing
\* tasks of lines 99-100, queue.get and completion_event.wait.
message_generator_yield(t) ==
    /\ gen[t].pc = "yield"
    /\ forwarded' = Append(forwarded, gen[t].item)
    /\ gen' = [gen EXCEPT ![t] = GenAdvance(@)]
    /\ exe' = IF WorkerAlive(t)
              THEN [exe EXCEPT ![t].unsubmitted = @ + 1]
              ELSE exe
    /\ UNCHANGED auxVars
    /\ UNCHANGED <<queue, callerVars, session_lock, executions, numTasks, task,
                   session, slog, persisted, broadcast>>

\* line 99: queue_task completes, taking the head of the queue.
message_generator_queue_task(t) ==
    /\ gen[t].pc = "race"
    /\ ~gen[t].qdone
    /\ queue # <<>>
    /\ gen' = [gen EXCEPT ![t].qdone = TRUE, ![t].item = Head(queue)]
    /\ queue' = Tail(queue)
    /\ UNCHANGED auxVars
    /\ UNCHANGED <<callerVars, session_lock, executions, numTasks, task, exe,
                   session, slog, logVars>>

\* line 100: event_task completes once the completion event is set.
message_generator_event_task(t) ==
    /\ gen[t].pc = "race"
    /\ ~gen[t].edone
    /\ exe[t].completion_event
    /\ gen' = [gen EXCEPT ![t].edone = TRUE]
    /\ UNCHANGED auxVars
    /\ UNCHANGED <<queue, callerVars, session_lock, executions, numTasks, task,
                   exe, session, slog, logVars>>

\* A race that processes the item of queue_task whenever there is one.
RaceResult_QueueFirst(g) ==
    IF g.qdone
    THEN [g EXCEPT !.pc = GenStages[1], !.qdone = FALSE, !.edone = FALSE]
    ELSE [pc |-> "done", item |-> NoItem, qdone |-> FALSE, edone |-> FALSE]

\* Lines 114-120: with event_task among the done tasks the loop breaks,
\* whatever queue_task holds; otherwise the item of queue_task is processed.
RaceResult(g) ==
    IF g.edone
    THEN [pc |-> "done", item |-> NoItem, qdone |-> FALSE, edone |-> FALSE]
    ELSE [g EXCEPT !.pc = GenStages[1], !.qdone = FALSE]

\* lines 102-120: asyncio.wait returns with the tasks that are done by the
\* time the generator resumes; the pending one is cancelled (a cancelled
\* queue.get leaves the queue untouched).  The generator resumes two loop
\* iterations after the first task completes and event_task completes one
\* iteration after the event is set, so an event that is set when
\* queue_task completes finds event_task among the done tasks.
message_generator_wake(t) ==
    /\ gen[t].pc = "race"
    /\ gen[t].edone \/ (gen[t].qdone /\ ~exe[t].completion_event)
    /\ gen' = [gen EXCEPT ![t] = RaceResult(@)]
    /\ UNCHANGED auxVars
    /\ UNCHANGED <<queue, callerVars, session_lock, executions, numTasks, task,
                   exe, session, slog, logVars>>

\* ------------------------------------------------------------------ hooks
\* user_prompt_submit_hook: fires when the worker takes up a forwarded
\* prompt.  When the external id resolves to the execution, is_processing is
\* set and the session is marked WORKING.  Whether it resolves depends on
\* entries written by callers of register_pending_execution, of which the
\* orchestrator is none: both outcomes are kept.
user_prompt_submit_hook(t) ==
    /\ WorkerAlive(t)
    /\ exe[t].worker = "idle"
    /\ exe[t].unsubmitted > 0
    /\ \E resolved \in BOOLEAN :
         IF resolved
         THEN /\ exe' = [exe EXCEPT ![t].worker = "busy", ![t].unsubmitted = @ - 1,
                                    ![t].is_processing = TRUE]
              /\ session' = update_to_working(session)
              /\ slog' = IF task[t].pc = "run"
                         THEN [slog EXCEPT ![t] = Logged(@, session'.status)]
                         ELSE slog
         ELSE /\ exe' = [exe EXCEPT ![t].worker = "busy", ![t].unsubmitted = @ - 1]
              /\ UNCHANGED <<session, slog>>
    /\ UNCHANGED auxVars
    /\ UNCHANGED <<queue, callerVars, session_lock, executions, numTasks, task,
                   gen, logVars>>

\* stop_hook: fires when the worker finishes responding.  When the execution
\* resolves and its queue is empty, is_processing is cleared and the session
\* is reset to IDLE.
stop_hook(t) ==
    /\ WorkerAlive(t)
    /\ exe[t].worker = "busy"
    /\ \E resolved \in BOOLEAN :
         IF resolved /\ queue = <<>>
         THEN /\ exe' = [exe EXCEPT ![t].worker = "idle", ![t].is_processing = FALSE]
              /\ session' = reset_to_idle(session)
              /\ slog' = IF task[t].pc = "run"
                         THEN [slog EXCEPT ![t] = Logged(@, session'.status)]
                         ELSE slog
         ELSE /\ exe' = [exe EXCEPT ![t].worker = "idle"]
              /\ UNCHANGED <<session, slog>>
    /\ UNCHANGED auxVars
    /\ UNCHANGED <<queue, callerVars, session_lock, executions, numTasks, task,
                   gen, logVars>>

\* ------------------------------------------------------------------- Next
CallerStep(c) ==
    \/ enqueue_put(c)
    \/ trigger_execution_if_needed(c)
    \/ interrupt_client(c)
    \/ interrupt_clear_queue(c)
    \/ interrupt_lock(c)
    \/ interrupt_await_task(c)
    \/ interrupt_status(c)

TaskStep(t) ==
    \/ execute_session_start(t)
    \/ execute_session_load(t)
    \/ run_join(t)
    \/ execute_session_success(t)
    \/ execute_session_except(t)
    \/ execute_session_finally(t)
    \/ task_cancelled(t)

GenStep(t) ==
    \/ message_generator_first(t)
    \/ message_generator_save(t)
    \/ message_generator_broadcast(t)
    \/ message_generator_yield(t)
    \/ message_generator_queue_task(t)
    \/ message_generator_event_task(t)
    \/ message_generator_wake(t)

WorkerStep(t) ==
    \/ worker_stream_end(t)
    \/ user_prompt_submit_hook(t)
    \/ stop_hook(t)

\* The steps in which every event run() yields is saved and broadcast.
NextHandled ==
    \/ \E c \in Callers : CallerStep(c)
    \/ \E t \in Tasks : TaskStep(t)
    \/ \E t \in Tasks : GenStep(t)
    \/ \E t \in Tasks : WorkerStep(t)

Next ==
    \/ NextHandled
    \/ \E t \in Tasks : event_handling_raises(t)

Spec == Init /\ [][Next]_vars

\* The event loop runs every coroutine that is ready: the steps of callers
\* already inside a call, of the activation task and of the generator are
\* weakly fair.  New calls and the worker's own behaviour are not.  The
\* fair behaviours checked are those in which saving and broadcasting the
\* worker's events does not fail.
Progress(c) ==
    \/ trigger_execution_if_needed(c)
    \/ interrupt_clear_queue(c)
    \/ interrupt_lock(c)
    \/ interrupt_await_task(c)
    \/ interrupt_status(c)

FairSpec ==
    /\ Init
    /\ [][NextHandled]_vars
    /\ \A c \in Callers : WF_vars(Progress(c))
    /\ \A t \in Tasks : WF_vars(TaskStep(t))
    /\ \A t \in Tasks : WF_vars(GenStep(t))

TypeOK ==
    /\ queue \in Seq(1..MaxEnqueue)
    /\ executions \in Tasks \cup {NoTask}
    /\ session_lock \in Callers \cup {Free}
    /\ session.status \in {"INITIALIZING", "IDLE", "WORKING", "ERROR"}

\* ============================================================ output loop
\* Execution._process_responses and the TextBufferManager it drives.  A text
\* delta is identified by its position in the stream, and a text is the
\* sequence of the deltas concatenated in it.
MaxEvents == 5       \* stream events handled in one behaviour
MaxBlock == 1        \* content-block indices are 0..MaxBlock
MaxQsize == 1        \* queue.qsize() seen at a turn complete is 0..MaxQsize

BlockIdx == 0..MaxBlock
\* TextBufferManager.buffer_delta: append the delta to the buffer of its
\* block, creating the buffer when there is none.
buffer_delta(b, i, d) ==
    [j \in DOMAIN b \cup {i} |->
       IF j = i THEN (IF i \in DOMAIN b THEN Append(b[i], d) ELSE <<d>>)
       ELSE b[j]]

\* The buffers without the one of block i.
Cleared(b, i) == [j \in DOMAIN b \ {i} |-> b[j]]

\* TextBufferManager.flush_buffer: the consolidated event of block i, if a
\* buffer exists for i (a list of one event, or of none).
flush_buffer(b, i) ==
    IF i \in DOMAIN b THEN <<[index |-> i, text |-> b[i]]>> ELSE <<>>

\* The orders in which flush_all_buffers may go through the buffers.
FlushOrders(b) ==
    {q \in [1..Cardinality(DOMAIN b) -> DOMAIN b] :
       \A m, n \in DOMAIN q : m # n => q[m] # q[n]}

\* TextBufferManager.flush_all_buffers: one consolidated event per remaining
\* buffer, in the order q.
flush_all_buffers(b, q) ==
    [n \in DOMAIN q |-> [index |-> q[n], text |-> b[q[n]]]]

BufInit ==
    /\ CoreInit
    /\ RegIdle
    /\ SmIdle
    /\ AskIdle
    /\ DbIdle
    /\ InjIdle
    /\ stream = "open"
    /\ events = <<>>
    /\ buffers = <<>>
    /\ emitted = <<>>
    /\ turns = <<>>

\* lines 179-182: a StreamDeltaEvent is buffered and nothing is yielded.
receive_delta(i) ==
    /\ stream = "open"
    /\ Len(events) < MaxEvents
    /\ events' = Append(events, [kind |-> "delta", index |-> i])
    /\ buffers' = buffer_delta(buffers, i, Len(events) + 1)
    /\ UNCHANGED <<stream, emitted, turns, exceptBuf>>

\* A loop that ignores what flush_buffer returns.
YieldFlushed_Drop(em, flushed) == em

\* lines 193-194: "if flushed: yield flushed".
YieldFlushed(em, flushed) == em \o flushed

\* lines 184-195: a ContentBlockStopEvent flushes the buffer of its block.
receive_block_stop(i) ==
    /\ stream = "open"
    /\ Len(events) < MaxEvents
    /\ events' = Append(events, [kind |-> "stop", index |-> i])
    /\ emitted' = YieldFlushed(emitted, flush_buffer(buffers, i))
    /\ buffers' = Cleared(buffers, i)
    /\ UNCHANGED <<stream, turns, exceptBuf>>

\* A flag that looks at the queue only.
has_more_messages_QueueOnly(ip, qsize) == qsize > 0

\* line 211: event.has_more_messages = self.is_processing or queue_size > 0.
has_more_messages(ip, qsize) == ip \/ qsize > 0

\* lines 197-222: a MessageCompleteEvent flushes every buffer, the flushed
\* events are yielded, then has_more_messages is set from is_processing and
\* queue.qsize() as they are at that point (ip, qsize) and the event itself
\* is yielded; the loop goes on.
receive_message_complete ==
    /\ stream = "open"
    /\ Len(events) < MaxEvents
    /\ events' = Append(events, [kind |-> "complete", index |-> 0])
    /\ \E q \in FlushOrders(buffers) :
         emitted' = emitted \o flush_all_buffers(buffers, q)
    /\ buffers' = <<>>
    /\ \E ip \in BOOLEAN, qsize \in 0..MaxQsize :
         turns' = Append(turns, [after |-> Len(emitted'),
                                 is_processing |-> ip,
                                 queue_size |-> qsize,
                                 has_more_messages |-> has_more_messages(ip, qsize)])
    /\ UNCHANGED <<stream, exceptBuf>>

\* An end of stream after which nothing more is yielded.
YieldRemaining_None(em, flushed) == em

\* lines 235-239: the events of the last flush_all_buffers are yielded.
YieldRemaining(em, flushed) == em \o flushed

\* lines 163 and 235-239: receive_messages() is exhausted; the remaining
\* buffers are flushed and the loop finishes.
stream_end ==
    /\ stream = "open"
    /\ stream' = "closed"
    /\ \E q \in FlushOrders(buffers) :
         emitted' = YieldRemaining(emitted, flush_all_buffers(buffers, q))
    /\ buffers' = <<>>
    /\ UNCHANGED <<events, turns, exceptBuf>>

\* line 163: receive_messages() raises; the exception leaves the loop
\* before line 235, with the buffers as they are.
stream_raise ==
    /\ stream = "open"
    /\ stream' = "failed"
    /\ UNCHANGED <<events, buffers, emitted, turns, exceptBuf>>

BufNext ==
    \/ \E i \in BlockIdx : receive_delta(i)
    \/ \E i \in BlockIdx : receive_block_stop(i)
    \/ receive_message_complete
    \/ stream_end
    \/ stream_raise

BufSpec == BufInit /\ [][BufNext]_vars

\* ===================================================== execution registry
\* The two pools of hooks.py and the calls that write them.  An execution is
\* identified by the internal id of its session (execution.session_id).  A
\* call that is atomic in the code (no await inside) is one step; ret holds
\* the call that has just completed.
Without(q, a) == SelectSeq(q, LAMBDA b : b # a)
Call(op, arg, e, from) == [op |-> op, arg |-> arg, execution |-> e, from |-> from]

\* register_pending_execution: _pending_executions[a] = entry; a key that
\* is already there keeps its place in the dict.
register_pending_execution(a) ==
    /\ pending' = IF a \in Range(pending) THEN pending ELSE Append(pending, a)
    /\ unregistered' = [unregistered EXCEPT ![a] = FALSE]
    /\ ret' = Call("register_pending", a, NoExec, "none")
    /\ UNCHANGED <<registry, captured, hook, exceptReg>>

\* register_execution: _execution_registry[x] = entry.
register_execution(r, x, e) == [y \in DOMAIN r \cup {x} |-> IF y = x THEN e ELSE r[y]]

\* An unregister that leaves the active pool alone.
unregister_active_Keep(r, a) == r

\* unregister_execution, lines 308-317: every active entry whose execution
\* has session_id a is removed.
unregister_active(r, a) == [y \in {z \in DOMAIN r : r[z] # a} |-> r[y]]

\* unregister_execution: both pools are purged of a.
unregister_execution(a) ==
    /\ pending' = Without(pending, a)
    /\ registry' = unregister_active(registry, a)
    /\ unregistered' = [unregistered EXCEPT ![a] = TRUE]
    /\ ret' = Call("unregister", a, NoExec, "none")
    /\ UNCHANGED <<captured, hook, exceptReg>>

\* The worker client of session a captures the external id of its worker
\* (from then on get_session_id_async returns it).
client_capture(a) ==
    /\ a \notin captured
    /\ captured' = captured \cup {a}
    /\ ret' = NoCall
    /\ UNCHANGED <<pending, registry, hook, unregistered, exceptReg>>

\* An eager promotion that leaves the promoted entry in the pending pool.
eager_pending_Keep(q) == q

\* _eagerly_register_from_pending, line 352: del _pending_executions[id].
eager_pending(q) == Tail(q)

\* _eagerly_register_from_pending(x): an active entry is returned at once;
\* otherwise the first pending entry, if any, is registered under x and
\* removed from the pending pool.
eagerly_register_from_pending(x) ==
    /\ IF x \in DOMAIN registry
       THEN /\ ret' = Call("eager", x, registry[x], "active")
            /\ UNCHANGED <<pending, registry>>
       ELSE IF pending # <<>>
       THEN /\ registry' = register_execution(registry, x, Head(pending))
            /\ pending' = eager_pending(pending)
            /\ ret' = Call("eager", x, Head(pending), "pending")
       ELSE /\ ret' = Call("eager", x, NoExec, "none")
            /\ UNCHANGED <<pending, registry>>
    /\ UNCHANGED <<captured, hook, unregistered, exceptReg>>

\* _get_or_register_execution(x), lines 380-397: an active entry is returned
\* at once; otherwise the loop starts over a copy of the pending entries,
\* and awaits the external id of the first entry's client.
get_or_register_start(x) ==
    /\ hook.pc = "idle"
    /\ IF x \in DOMAIN registry
       THEN /\ ret' = Call("lazy", x, registry[x], "active")
            /\ UNCHANGED hook
       ELSE IF pending = <<>>
       THEN /\ ret' = Call("lazy", x, NoExec, "none")
            /\ UNCHANGED hook
       ELSE /\ hook' = [pc |-> "probing", x |-> x, todo |-> pending]
            /\ ret' = NoCall
    /\ UNCHANGED <<pending, registry, captured, unregistered, exceptReg>>

\* The loop of _get_or_register_execution after the probe of one entry.
NextProbe(h) ==
    IF Tail(h.todo) = <<>> THEN NoHook ELSE [h EXCEPT !.todo = Tail(@)]

\* lines 397-412: the awaited get_session_id_async returns (the captured
\* id, or None on timeout).  On a match the entry is registered under x and
\* then deleted from the pending pool; when the key is no longer there the
\* KeyError is caught with every other exception and the loop goes on.
get_or_register_probe ==
    /\ hook.pc = "probing"
    /\ LET a == Head(hook.todo)
           match == a \in captured /\ WorkerId(a) = hook.x
           found == match /\ a \in Range(pending)
       IN /\ registry' = IF match THEN register_execution(registry, hook.x, a)
                         ELSE registry
          /\ pending' = IF found THEN Without(pending, a) ELSE pending
          /\ hook' = IF found THEN NoHook ELSE NextProbe(hook)
          /\ ret' = IF found THEN Call("lazy", hook.x, a, "pending")
                    ELSE IF Tail(hook.todo) = <<>>
                    THEN Call("lazy", hook.x, NoExec, "none")
                    ELSE NoCall
    /\ UNCHANGED <<captured, unregistered, exceptReg>>

RegNext ==
    \/ \E a \in InternalIds : register_pending_execution(a)
    \/ \E a \in InternalIds : unregister_execution(a)
    \/ \E a \in InternalIds : client_capture(a)
    \/ \E x \in ExternalIds : eagerly_register_from_pending(x)
    \/ \E x \in ExternalIds : get_or_register_start(x)
    \/ get_or_register_probe

RegSpec == Init /\ [][RegNext]_vars

\* ====================================================== status manager
\* SessionStatusManager (state/session_status_manager.py).  Each operation
\* takes _locks[S], loads the entity, changes it, commits it and broadcasts
\* the new status; every await in between can raise.
SessionStatus == {"INITIALIZING", "IDLE", "WORKING", "ERROR", "INTERRUPTED",
                  "DONE", "CANCELLED"}
\* Resume tokens: None, the empty string, one stored and one offered.
StoredTokens == {NoToken, "tokA"}
OfferedTokens == {NoToken, "", "tokB"}
StoredMessages == {"none", "stale"}

Core(e) == [status |-> e.status, error_message |-> e.error_message]
WithCore(e, c) ==
    [e EXCEPT !.status = c.status, !.error_message = c.error_message]

\* update_after_execution that stores the offered token unconditionally.
save_claude_session_id_Always(e, err, tok) ==
    [e EXCEPT !.claude_session_id = tok]

\* update_after_execution, success branch: "if claude_session_id:".
save_claude_session_id(e, err, tok) ==
    IF err = NoError /\ tok \notin {NoToken, ""}
    THEN [e EXCEPT !.claude_session_id = tok]
    ELSE e

\* reset_to_idle that clears the token whatever the flag.
clear_claude_session_Always(e, clear) ==
    [e EXCEPT !.claude_session_id = NoToken]

\* reset_to_idle: "if clear_claude_session:".
clear_claude_session(e, clear) ==
    IF clear THEN [e EXCEPT !.claude_session_id = NoToken] ELSE e

\* update_to_interrupted that also forgets the resume token.
update_to_interrupted_DropToken(e) ==
    [e EXCEPT !.status = "INTERRUPTED", !.claude_session_id = NoToken]

\* update_to_interrupted: only the status is assigned.
update_to_interrupted(e) == [e EXCEPT !.status = "INTERRUPTED"]

\* The calls a caller can make, with their arguments.
SmOps ==
    {[op |-> "update_to_working", err |-> NoError, tok |-> NoToken,
      clear |-> FALSE],
     [op |-> "update_to_interrupted", err |-> NoError, tok |-> NoToken,
      clear |-> FALSE]}
    \cup {[op |-> "update_after_execution", err |-> e, tok |-> t,
           clear |-> FALSE] :
            e \in Errors \cup {NoError}, t \in OfferedTokens}
    \cup {[op |-> "reset_to_idle", err |-> NoError, tok |-> NoToken,
           clear |-> b] : b \in BOOLEAN}

\* The entity a call hands to session_repo.update.
Modified(k) ==
    CASE k.op = "update_to_working" ->
           WithCore(k.entity, update_to_working(Core(k.entity)))
      [] k.op = "update_after_execution" ->
           save_claude_session_id(
               WithCore(k.entity,
                        update_after_execution(Core(k.entity), k.err)),
               k.err, k.tok)
      [] k.op = "reset_to_idle" ->
           clear_claude_session(
               WithCore(k.entity, reset_to_idle(Core(k.entity))), k.clear)
      [] OTHER -> update_to_interrupted(k.entity)

\* The status a call puts in its SessionStatusEvent.
EventStatus(k) ==
    CASE k.op = "update_to_working" -> "WORKING"
      [] k.op = "update_after_execution" ->
           IF k.err # NoError THEN "ERROR" ELSE "IDLE"
      [] k.op = "reset_to_idle" -> "IDLE"
      [] OTHER -> "INTERRUPTED"

\* "except Exception" that lets the exception through.
except_Exception_Reraise(step) == "raised"

\* "except Exception as e: logger.error(...)": the exception of any step
\* is logged and the call returns.
except_Exception(step) == "logged"

SmInit ==
    /\ CoreInit
    /\ BufIdle
    /\ RegIdle
    /\ AskIdle
    /\ DbIdle
    /\ InjIdle
    /\ db \in {NoEntity} \cup
              [exists : {TRUE}, status : SessionStatus,
               error_message : StoredMessages,
               claude_session_id : StoredTokens]
    /\ sm_lock = [m \in Managers |-> Free]
    /\ call = [c \in SmCallers |-> IdleCall]
    /\ outcome = [c \in SmCallers |-> "none"]
    /\ writes = <<>>
    /\ bcasts = <<>>
    /\ numCalls = 0

\* A caller awaits one of the four operations of manager m: _get_lock, then
\* it waits for that manager's lock.
sm_call(c, m, o) ==
    /\ call[c].pc = "idle"
    /\ numCalls < MaxSmCalls
    /\ numCalls' = numCalls + 1
    /\ call' = [call EXCEPT ![c] =
                   [pc |-> "wait", mgr |-> m, op |-> o.op, err |-> o.err,
                    tok |-> o.tok, clear |-> o.clear, entity |-> NoEntity]]
    /\ outcome' = [outcome EXCEPT ![c] = "none"]
    /\ UNCHANGED <<db, sm_lock, writes, bcasts, exceptSm>>

\* "async with lock": the lock is free and the caller takes it.
sm_acquire(c) ==
    /\ call[c].pc = "wait"
    /\ sm_lock[call[c].mgr] = Free
    /\ sm_lock' = [sm_lock EXCEPT ![call[c].mgr] = c]
    /\ call' = [call EXCEPT ![c].pc = "locked"]
    /\ UNCHANGED <<db, outcome, writes, bcasts, numCalls, exceptSm>>

\* The call leaves "async with lock" and returns to its caller.
sm_return(c, how) ==
    /\ call' = [call EXCEPT ![c] = IdleCall]
    /\ sm_lock' = [sm_lock EXCEPT ![call[c].mgr] = Free]
    /\ outcome' = [outcome EXCEPT ![c] = how]

\* get_repository_session and get_by_id: the lookup raises, finds no
\* session (the call returns, having written nothing), or loads the entity.
sm_load(c) ==
    /\ call[c].pc = "locked"
    /\ \/ sm_return(c, except_Exception("load"))
       \/ /\ ~db.exists
          /\ sm_return(c, "returned")
       \/ /\ db.exists
          /\ call' = [call EXCEPT ![c].pc = "loaded", ![c].entity = db]
          /\ UNCHANGED <<sm_lock, outcome>>
    /\ UNCHANGED <<db, writes, bcasts, numCalls, exceptSm>>

\* The entity is changed, then session_repo.update and db.commit: they
\* raise and nothing is persisted, or the changed entity is persisted.
sm_commit(c) ==
    /\ call[c].pc = "loaded"
    /\ \/ /\ sm_return(c, except_Exception("commit"))
          /\ UNCHANGED <<db, writes>>
       \/ /\ db' = Modified(call[c])
          /\ writes' = Append(writes, db'.status)
          /\ call' = [call EXCEPT ![c].pc = "committed"]
          /\ UNCHANGED <<sm_lock, outcome>>
    /\ UNCHANGED <<bcasts, numCalls, exceptSm>>

\* sse_manager.broadcast of the SessionStatusEvent: it raises, or the
\* event goes out; either way the call then returns.
sm_broadcast(c) ==
    /\ call[c].pc = "committed"
    /\ \/ /\ sm_return(c, except_Exception("broadcast"))
          /\ UNCHANGED bcasts
       \/ /\ bcasts' = Append(bcasts, EventStatus(call[c]))
          /\ sm_return(c, "returned")
    /\ UNCHANGED <<db, writes, numCalls, exceptSm>>

\* One manager, here the singleton, with every operation and argument.
SmNext ==
    \/ \E c \in SmCallers, o \in SmOps : sm_call(c, "hooks", o)
    \/ \E c \in SmCallers : sm_acquire(c)
    \/ \E c \in SmCallers : sm_load(c)
    \/ \E c \in SmCallers : sm_commit(c)
    \/ \E c \in SmCallers : sm_broadcast(c)

SmSpec == SmInit /\ [][SmNext]_vars

\* ------------------------------------------- every writer of the status
\* The calls the program makes: the executor on its own manager
\* (executor.py:415, 425: the token is fetched only when there was no
\* error), the hooks on the singleton (hooks.py:451, 510, 566).
ExecutorOps ==
    {o \in SmOps :
        \/ o.op = "update_to_working"
        \/ o.op = "update_after_execution" /\ (o.err # NoError => o.tok = NoToken)}
HookOps ==
    {o \in SmOps :
        \/ o.op = "update_to_working"
        \/ o.op = "reset_to_idle" /\ ~o.clear}
CallsOf(m) == IF m = "executor" THEN ExecutorOps ELSE HookOps

\* The kanban stages of update_instance_stage that decide a status, and one
\* that does not.
Stages == {"cancelled", "done", "in_progress", "review"}

\* update_instance_stage, lines 584-602: the status it assigns.
stage_status(status, stage) ==
    CASE stage = "cancelled" -> "CANCELLED"
      [] stage = "done" ->
           IF status \notin {"DONE", "CANCELLED"} THEN "DONE" ELSE status
      [] stage = "in_progress" ->
           IF status = "INITIALIZING" THEN "WORKING" ELSE status
      [] OTHER -> status

\* The PM tool update_instance_stage on an existing session: it assigns
\* session_entity.status itself and commits, with no status manager, no
\* lock and no status event.  Its read and its commit are taken as one
\* step.
update_instance_stage(stage) ==
    /\ db.exists
    /\ db' = [db EXCEPT !.status = stage_status(db.status, stage)]
    /\ UNCHANGED <<sm_lock, call, outcome, writes, bcasts, numCalls,
                   exceptSm>>

StatusNext ==
    \/ \E c \in SmCallers, m \in Managers :
          \E o \in CallsOf(m) : sm_call(c, m, o)
    \/ \E c \in SmCallers : sm_acquire(c)
    \/ \E c \in SmCallers : sm_load(c)
    \/ \E c \in SmCallers : sm_commit(c)
    \/ \E c \in SmCallers : sm_broadcast(c)
    \/ \E stage \in Stages : update_instance_stage(stage)

StatusSpec == SmInit /\ [][StatusNext]_vars

\* ========================================================= resume token
\* SessionExecutor.get_claude_session_id: the live client's session id, or
\* the persisted claude_session_id when the client manager has no client.
ReportedTokens == {NoToken, "tokA", "tokB"}

\* _get_claude_session_id_from_db: None when the lookup raises or finds no
\* session.
get_claude_session_id_from_db(e, ok) ==
    IF ok /\ e.exists THEN e.claude_session_id ELSE NoToken

\* get_claude_session_id that asks the database first.
get_claude_session_id_StoredFirst(cl, e, ok) ==
    IF get_claude_session_id_from_db(e, ok) # NoToken
    THEN get_claude_session_id_from_db(e, ok)
    ELSE cl.session_id

\* get_claude_session_id: ClientNotFoundError selects the fallback.
get_claude_session_id(cl, e, ok) ==
    IF cl.live THEN cl.session_id ELSE get_claude_session_id_from_db(e, ok)

\* _get_or_create_client creates the client of the session; it has reported
\* no session id yet.
create_client ==
    /\ ~client.live
    /\ client' = [live |-> TRUE, session_id |-> NoToken]
    /\ UNCHANGED <<answer, capture, smVars, exceptAsk>>

\* The worker reports its external session id and the client keeps it.
client_reports(t) ==
    /\ client.live
    /\ client' = [client EXCEPT !.session_id = t]
    /\ UNCHANGED <<answer, capture, smVars, exceptAsk>>

\* _interrupt_claude_client: the client is removed from the client manager.
remove_client ==
    /\ client.live
    /\ client' = NoClient
    /\ UNCHANGED <<answer, capture, smVars, exceptAsk>>

\* A caller awaits get_claude_session_id.
ask_claude_session_id ==
    /\ answer = Unasked
    /\ \E ok \in BOOLEAN : answer' = get_claude_session_id(client, db, ok)
    /\ UNCHANGED <<client, capture, smVars, exceptAsk>>

\* The caller has used the answer.
answer_taken ==
    /\ answer # Unasked
    /\ answer' = Unasked
    /\ UNCHANGED <<client, capture, smVars, exceptAsk>>

TokenNext ==
    \/ create_client
    \/ \E t \in ReportedTokens : client_reports(t)
    \/ remove_client
    \/ ask_claude_session_id
    \/ answer_taken

\* The persisted row is any row, as in SmInit; no client at the start.
TokenSpec == SmInit /\ [][TokenNext]_vars

\* ===================================================== context injection
\* inject_session_context_hook and its two lookups.  What the lookups can
\* find for the callback's external id is drawn once: no entry at all, or
\* an entry (active or pending) with or without a project_id and a
\* source_instance_id, for an execution whose session row has or lacks a
\* project.
Ctxs ==
    {NoCtx} \cup
    [hit : {TRUE}, project_id : {"none", "P1"},
     source_instance_id : {"none", "S1"}, internal_id : {"A"},
     db_project_id : {"none", "P2"}]

\* tool_input: any of three parameters, each with a value the agent chose.
AgentValues == {"v1", "v2"}
ToolInputs == [ToolKeys -> AgentValues \cup {Absent}]
HookInputs ==
    [hook_event_name : {"PreToolUse", "PostToolUse"},
     session_id : {"none", "X"},
     tool_input : ToolInputs]

\* _get_project_id_from_session: the entry's project_id, else the project
\* of the execution's session row, else None.
get_project_id_from_session(cx) ==
    IF ~cx.hit THEN "none"
    ELSE IF cx.project_id # "none" THEN cx.project_id
    ELSE cx.db_project_id

\* _get_source_instance_id_from_session: the entry's source_instance_id,
\* else the execution's internal session id, else None.
get_source_instance_id_from_session(cx) ==
    IF ~cx.hit THEN "none"
    ELSE IF cx.source_instance_id # "none" THEN cx.source_instance_id
    ELSE cx.internal_id

\* updated_input[k] = v
Put(f, k, v) == [f EXCEPT ![k] = v]

\* A hook that refuses the tool when it has no project to inject.
permission_decision_NeedsProject(p) == IF p = "none" THEN "deny" ELSE "allow"

\* The permissionDecision of the hook: always "allow".
permission_decision(p) == "allow"

\* inject_session_context_hook: {} for other events and for a callback
\* without session_id; otherwise tool_input with what was found put in.
inject_session_context_hook(in, cx) ==
    IF in.hook_event_name # "PreToolUse" \/ in.session_id = "none"
    THEN EmptyOutput
    ELSE LET p == get_project_id_from_session(cx)
             s == get_source_instance_id_from_session(cx)
             u1 == IF p # "none"
                   THEN Put(in.tool_input, "project_id", p)
                   ELSE in.tool_input
             u2 == IF s # "none"
                   THEN Put(u1, "source_instance_id", s)
                   ELSE u1
         IN  [answered |-> TRUE, empty |-> FALSE,
              permissionDecision |-> permission_decision(p),
              updatedInput |-> u2]

InjectInit ==
    /\ CoreInit
    /\ BufIdle
    /\ RegIdle
    /\ SmIdle
    /\ AskIdle
    /\ DbIdle
    /\ ctx \in Ctxs
    /\ hook_in = NoInput
    /\ hook_out = NoOutput

\* The SDK calls the hook before a tool use.
pre_tool_use(in) ==
    /\ ~hook_out.answered
    /\ hook_in' = in
    /\ hook_out' = inject_session_context_hook(in, ctx)
    /\ UNCHANGED <<ctx, exceptInj>>

\* The SDK has taken the hook's answer.
hook_returned ==
    /\ hook_out.answered
    /\ hook_in' = NoInput
    /\ hook_out' = NoOutput
    /\ UNCHANGED <<ctx, exceptInj>>

InjectNext ==
    \/ \E in \in HookInputs : pre_tool_use(in)
    \/ hook_returned

InjectSpec == InjectInit /\ [][InjectNext]_vars

\* ================================================================ claims
RunningTasks == {t \in Tasks : Running(t)}

\* C1: at every instant at most one activation task of the session is
\* started and not finished, whatever the interleaving of enqueue calls.
C1_AtMostOneTask == Cardinality(RunningTasks) <= 1

\* An enqueue is about to run its check-then-start step while another
\* enqueue's task is registered and not done.
C1_Witness ==
    /\ numEnq >= 2
    /\ is_processing
    /\ \E c \in Callers : cpc[c] = "enq_trigger" /\ session_lock = Free

\* C2: with no interrupt, the inputs yielded to the worker are a prefix of
\* the enqueue sequence (the n-th enqueued input is the n-th forwarded one).
C2_ForwardedIsPrefix ==
    numInt = 0 => \A i \in 1..Len(forwarded) : forwarded[i] = i

C5_InterruptReturns ==
    \A c \in Callers : (cpc[c] = "int_await") ~> (cpc[c] = "idle")

\* C6: an interrupt that finds no task registered leaves the registry as it
\* is and goes on without waiting; the queue is drained to size 0 and the
\* status update is performed before interrupt returns.
C6_InterruptWithoutTask ==
    [][\A c \in Callers :
         /\ (cpc[c] = "int_clear" /\ cpc'[c] = "int_lock") => queue' = <<>>
         /\ (cpc[c] = "int_lock" /\ cpc'[c] # "int_lock" /\ executions = NoTask)
            => /\ executions' = NoTask
               /\ cpc'[c] = "int_status"
               /\ session_lock' = Free
               /\ task' = task
         /\ (cpc[c] = "int_status" /\ cpc'[c] = "idle")
            => /\ session'.status = "IDLE"
               /\ session'.error_message = "none"]_vars

\* An interrupt passed its locked section on a session for which no task
\* was ever registered, while the session shows an earlier status.
C6_Witness ==
    \E c \in Callers :
      /\ cpc[c] = "int_status"
      /\ executions = NoTask
      /\ \A t \in Tasks : ~Running(t)
      /\ session.status = "ERROR"

StatusShape(log, last) ==
    /\ Len(log) >= 2
    /\ log[1] = "WORKING"
    /\ log[Len(log)] = last
    /\ \A i \in 1..(Len(log) - 1) : log[i] \in {"WORKING", "IDLE"}

C9_FinishedTaskUnregistered ==
    \A t \in Tasks : (Done(t) /\ executions = t) ~> (executions # t)

\* A task that finished (cancelled before it ran) is still registered.
C9_Witness == \E t \in Tasks : Done(t) /\ executions = t

\* C10: whenever the worker's output stream has ended, run() eventually
\* finishes (the generator exits and the query task is joined).  Stated for
\* the states in which further enqueue calls are still possible, so that no
\* run is cut short by the bound on calls.
C10_RunFinishes ==
    \A t \in Tasks :
      (/\ task[t].pc = "join"
       /\ task[t].outcome # "cancelled"
       /\ ~task[t].cancel
       /\ numEnq < MaxEnqueue)
        ~> (task[t].pc # "join" \/ task[t].cancel)

\* The step of task t's stop hook: the worker completes a turn while the
\* activation stays inside run().
TurnComplete(t) ==
    /\ task[t].pc = "run"
    /\ task'[t].pc = "run"
    /\ exe[t].worker = "busy"
    /\ exe'[t].worker = "idle"

Positions(ev) == [k \in 1..Len(ev) |-> k]
IsDelta(k) == events[k].kind = "delta"
\* The event at position k flushes block i.
Flushes(ev, k, i) ==
    \/ ev[k] = [kind |-> "stop", index |-> i]
    \/ ev[k].kind = "complete"
\* The deltas of block i that arrived after the last flush of block i, in
\* arrival order.
Since(ev, i) ==
    LET IsNew(k) == /\ ev[k] = [kind |-> "delta", index |-> i]
                    /\ \A m \in (k + 1)..Len(ev) : ~Flushes(ev, m, i)
    IN SelectSeq(Positions(ev), IsNew)
\* The emitted events that contain delta k.
Holders(k) == {m \in 1..Len(emitted) : k \in Range(emitted[m].text)}
\* The step in which the loop handles the block stop of block i.
BlockStop(i) ==
    /\ Len(events') = Len(events) + 1
    /\ events'[Len(events')] = [kind |-> "stop", index |-> i]

\* C12: a flush of block i that follows deltas d1..dn (n >= 1) of block i
\* emits exactly one consolidated event, whose text is d1..dn in arrival
\* order, and clears the buffer of i; a flush of i with no delta since the
\* last flush of i emits nothing.
C12_FlushEmitsConcatenation ==
    [][\A i \in BlockIdx :
         BlockStop(i)
         => /\ i \notin DOMAIN buffers'
            /\ IF Since(events, i) # <<>>
               THEN emitted' = Append(emitted, [index |-> i, text |-> Since(events, i)])
               ELSE emitted' = emitted]_vars

\* Two deltas of block 0, a flush of block 0 that emitted them as one event,
\* and a second flush of block 0 that emitted nothing.
C12_Witness ==
    /\ events = <<[kind |-> "delta", index |-> 0], [kind |-> "delta", index |-> 0],
                  [kind |-> "stop", index |-> 0], [kind |-> "stop", index |-> 0]>>
    /\ emitted = <<[index |-> 0, text |-> <<1, 2>>]>>

\* C13: no delta is ever contained in two emitted events or twice in one,
\* every emitted text is made of deltas of its own block, and once the
\* stream has ended and the loop has finished, every delta received is
\* contained in exactly one emitted event.
C13_EveryDeltaEmittedOnce ==
    /\ \A k \in 1..Len(events) : Cardinality(Holders(k)) <= 1
    /\ \A m \in 1..Len(emitted) :
         LET tx == emitted[m].text IN
         /\ \A a, b \in 1..Len(tx) : a < b => tx[a] < tx[b]
         /\ \A a \in 1..Len(tx) :
              events[tx[a]] = [kind |-> "delta", index |-> emitted[m].index]
    /\ stream = "closed"
       => \A k \in 1..Len(events) : IsDelta(k) => Cardinality(Holders(k)) = 1

\* The loop has finished; one delta was flushed by its block stop, another
\* one never saw a block stop or a turn complete and was emitted by the
\* flush at the end of the stream.
C13_Witness ==
    /\ stream = "closed"
    /\ \E k \in 1..Len(events) :
         /\ IsDelta(k)
         /\ \A m \in (k + 1)..Len(events) : ~Flushes(events, m, events[k].index)
    /\ \E k \in 1..Len(events) :
         /\ IsDelta(k)
         /\ \E m \in (k + 1)..Len(events) :
              events[m] = [kind |-> "stop", index |-> events[k].index]

\* ----------------------------------------------------- execution registry
\* The step just taken was a resolve call for x that started in this step
\* (an eager resolve, or a lazy one before any probe).
ResolveStarts(x) ==
    /\ ret'.arg = x
    /\ \/ ret'.op = "eager"
       \/ ret'.op = "lazy" /\ hook.pc = "idle"

\* C14: an eager resolve of x that finds x in neither pool and exactly one
\* pending entry (internal id pending[1]) moves that entry to the active
\* pool under x, empties the pending pool and returns its execution; every
\* resolve call that starts with x in the active pool returns the active
\* entry at once, probes no worker and changes neither pool.
C14_EagerPromotion ==
    [][\A x \in ExternalIds :
         /\ (/\ ret'.op = "eager" /\ ret'.arg = x
             /\ x \notin DOMAIN registry
             /\ Len(pending) = 1)
            => /\ registry' = register_execution(registry, x, pending[1])
               /\ pending' = <<>>
               /\ ret'.execution = pending[1]
         /\ (ResolveStarts(x) /\ x \in DOMAIN registry)
            => /\ ret'.execution = registry[x]
               /\ ret'.from = "active"
               /\ hook' = hook
               /\ registry' = registry
               /\ pending' = pending]_vars

\* No worker has reported an id, the only session ever registered was
\* promoted eagerly under external id 2, and a later lazy resolve of 2 has
\* just returned its execution from the active pool.
C14_Witness ==
    /\ captured = {}
    /\ pending = <<>>
    /\ DOMAIN registry = {2}
    /\ \A a \in InternalIds : ~unregistered[a]
    /\ ret = Call("lazy", 2, 1, "active")

\* C15, the effect of unregister(a): the pending entry of a and the active
\* entries of a's execution are removed, every other entry stays.
C15_UnregisterRemoves ==
    [][\A a \in InternalIds :
         (ret'.op = "unregister" /\ ret'.arg = a)
         => /\ pending' = Without(pending, a)
            /\ DOMAIN registry' = {x \in DOMAIN registry : registry[x] # a}
            /\ \A x \in DOMAIN registry' : registry'[x] = registry[x]]_vars

\* C15: once a is unregistered (and not registered again), no resolve call
\* returns a's execution.
C15_NoResolveAfterUnregister ==
    \A a \in InternalIds :
      (ret.op \in {"eager", "lazy"} /\ ret.execution = a) => ~unregistered[a]

\* The one session the orchestrator specification follows.
TheSession == 1

\* C16: while an activation of the session is running, the registry holds
\* an entry for it, in the pending or in the active pool.
C16_EntryWhileActive ==
    \A t \in Tasks :
      task[t].pc \in {"run", "join"}
      => \/ TheSession \in Range(pending)
         \/ \E x \in DOMAIN registry : registry[x] = TheSession

\* A caller's call commits, or broadcasts, in this step.
Commits(c, o) ==
    call[c].op = o /\ call[c].pc = "loaded" /\ call'[c].pc = "committed"
Broadcasts(c, o) ==
    call[c].op = o /\ call[c].pc = "committed" /\ bcasts' # bcasts

\* C17: update_to_working on an existing session persists WORKING whatever
\* the status was, clears the error message exactly when the status was
\* ERROR and keeps it otherwise, leaves the resume token as it was, and the
\* status event it broadcasts says WORKING.
C17_MarkWorking ==
    [][\A c \in SmCallers :
          /\ Commits(c, "update_to_working") =>
                db' = [db EXCEPT
                          !.status = "WORKING",
                          !.error_message = IF db.status = "ERROR"
                                            THEN "none"
                                            ELSE db.error_message]
          /\ Broadcasts(c, "update_to_working") =>
                /\ bcasts' = Append(bcasts, "WORKING")
                /\ db.status = "WORKING"]_vars

\* A completed update_to_working on a session that was not in ERROR: the
\* stale message and the token are still there.
C17_Witness ==
    /\ writes = <<"WORKING">>
    /\ bcasts = <<"WORKING">>
    /\ \E c \in SmCallers : outcome[c] = "returned"
    /\ db.status = "WORKING"
    /\ db.error_message = "stale"
    /\ db.claude_session_id = "tokA"

\* C18: update_after_execution with an error persists ERROR and str(error)
\* and leaves the resume token as it was; without an error it persists IDLE,
\* clears the error message and stores the offered token when there is one;
\* in both cases the status it broadcasts is the status it persisted.
C18_MarkAfterExecution ==
    [][\A c \in SmCallers :
          /\ Commits(c, "update_after_execution") /\ call[c].err # NoError =>
                db' = [db EXCEPT !.status = "ERROR",
                                 !.error_message = StrOf(call[c].err)]
          /\ Commits(c, "update_after_execution") /\ call[c].err = NoError =>
                db' = [db EXCEPT
                          !.status = "IDLE",
                          !.error_message = "none",
                          !.claude_session_id =
                              IF call[c].tok \in {NoToken, ""}
                              THEN db.claude_session_id
                              ELSE call[c].tok]
          /\ Broadcasts(c, "update_after_execution") =>
                /\ bcasts' = Append(bcasts, db.status)
                /\ db.status = IF call[c].err # NoError
                               THEN "ERROR" ELSE "IDLE"]_vars

\* A failed execution was recorded, then a successful one that offered a
\* token: both were broadcast, and the token replaced the stored one.
C18_Witness ==
    /\ writes = <<"ERROR", "IDLE">>
    /\ bcasts = <<"ERROR", "IDLE">>
    /\ \A c \in SmCallers : call[c].pc = "idle"
    /\ db.status = "IDLE"
    /\ db.error_message = "none"
    /\ db.claude_session_id = "tokB"

\* C19: reset_to_idle persists IDLE from any status, INTERRUPTED, DONE and
\* CANCELLED included, clears the error message, clears the resume token
\* exactly when clear_claude_session is set, and broadcasts IDLE.
C19_ResetToIdle ==
    [][\A c \in SmCallers :
          /\ Commits(c, "reset_to_idle") =>
                db' = [db EXCEPT
                          !.status = "IDLE",
                          !.error_message = "none",
                          !.claude_session_id =
                              IF call[c].clear
                              THEN NoToken
                              ELSE db.claude_session_id]
          /\ Broadcasts(c, "reset_to_idle") =>
                /\ bcasts' = Append(bcasts, "IDLE")
                /\ db.status = "IDLE"]_vars

\* reset_to_idle(clear_claude_session=True) has just committed on a
\* CANCELLED session that had a stale message and a token.
C19_Witness ==
    \E c \in SmCallers :
        /\ call[c].op = "reset_to_idle"
        /\ call[c].pc = "committed"
        /\ call[c].clear
        /\ call[c].entity.status = "CANCELLED"
        /\ call[c].entity.error_message = "stale"
        /\ call[c].entity.claude_session_id = "tokA"
        /\ db = IdleEntity

\* C20: no status manager operation raises to its caller.  A call whose
\* lookup, commit or broadcast raised, or that found no session, has
\* returned normally, and a caller that is not inside a call does not hold
\* the session's status lock.
C20_NeverRaises ==
    \A c \in SmCallers :
        /\ outcome[c] \in {"none", "returned", "logged"}
        /\ \A m \in Managers :
              sm_lock[m] = c => call[c].pc \in {"locked", "loaded", "committed"}

\* A call committed its status, its broadcast raised, and it has returned
\* with the lock free.
C20_Witness ==
    /\ \E c \in SmCallers : outcome[c] = "logged"
    /\ \A c \in SmCallers : call[c].pc = "idle"
    /\ Len(writes) = 1
    /\ bcasts = <<>>
    /\ \A m \in Managers : sm_lock[m] = Free

\* SessionStatusManager._is_valid_transition, which no operation calls.
is_valid_transition(from, to) ==
    \/ to = "INTERRUPTED"
    \/ from \in {"IDLE", "INITIALIZING"} /\ to = "WORKING"
    \/ from = "WORKING" /\ to \in {"IDLE", "ERROR"}
    \/ from = "ERROR" /\ to \in {"WORKING", "IDLE"}

\* C21: every change of the persisted status of the session is a pair of
\* the transition table, under any sequence of enqueue, interrupt,
\* activation end and hook callbacks.
C21_TransitionTable ==
    [][session'.status # session.status =>
          is_valid_transition(session.status, session'.status)]_vars

\* No status manager call is in progress.
Quiescent == \A c \in SmCallers : call[c].pc = "idle"

\* C22: the status is written only through the status manager and every
\* write is broadcast: whenever no operation is in progress, the last
\* status broadcast for the session is its persisted status.
C22_LastBroadcastIsPersisted ==
    Quiescent /\ bcasts # <<>> => bcasts[Len(bcasts)] = db.status

\* The calls that have read the session and not yet returned.
InCritical == {c \in SmCallers : call[c].pc \in {"loaded", "committed"}}

\* C23: status manager operations on the session exclude each other: at
\* most one is between its read of the session and its broadcast, and so
\* the statuses broadcast so far are, in order, the statuses written so far
\* by the calls that have broadcast.
C23_MutuallyExclusive ==
    /\ Cardinality(InCritical) <= 1
    /\ Quiescent /\ Len(bcasts) = Len(writes) => bcasts = writes

\* The registered task exists and has not finished.
RegisteredRunning == executions # NoTask /\ Running(executions)
\* The steps in which the activation's cleanup deletes the entry, interrupt
\* passes its lock section, and interrupt returns.
CleansUp ==
    /\ executions # NoTask
    /\ task[executions].pc \in {"close", "cleanup"}
    /\ task'[executions].pc = "done"
InterruptDeletes(c) ==
    cpc[c] \in {"int_lock", "int_await"} /\ cpc'[c] = "int_status"
InterruptReturns(c) == cpc[c] = "int_status" /\ cpc'[c] = "idle"

\* C24: is_processing(S) is true exactly when a task is registered for S
\* and has not finished; it is false for a session never enqueued, false
\* after the activation's cleanup and false when interrupt returns.
C24_FalseWhenInterruptReturns ==
    [][/\ is_processing' <=> RegisteredRunning'
       /\ numEnq' = 0 => ~is_processing'
       /\ CleansUp => ~is_processing'
       /\ \A c \in Callers : InterruptReturns(c) => ~is_processing']_vars

\* C24, as the code has it: the same, but what interrupt guarantees is that
\* is_processing(S) is false when it leaves its lock section; when it
\* returns, an enqueue that was in progress meanwhile may have started the
\* next activation.
C24_FalseWhenInterruptDeletes ==
    [][/\ is_processing' <=> RegisteredRunning'
       /\ numEnq' = 0 => ~is_processing'
       /\ CleansUp => ~is_processing'
       /\ \A c \in Callers :
             /\ InterruptDeletes(c) => ~is_processing'
             /\ InterruptReturns(c) /\ is_processing' => numEnq > 0]_vars

\* interrupt has deleted the entry of a task that had finished, and has not
\* yet returned.
C24_Witness ==
    /\ \E c \in Callers : cpc[c] = "int_status"
    /\ \E t \in Tasks : Done(t)
    /\ executions = NoTask
    /\ ~is_processing

\* C25: get_claude_session_id returns the live client's reported session
\* id whenever the session has a live client, whatever is persisted, and
\* returns the persisted token only when it has none.
C25_ResumeToken ==
    [][answer = Unasked /\ answer' # Unasked =>
          /\ client.live => answer' = client.session_id
          /\ ~client.live => answer' \in {db.claude_session_id, NoToken}]_vars

\* With a live client that reported tokB and tokA persisted, the answer is
\* tokB.
C25_Witness ==
    /\ client.live
    /\ client.session_id = "tokB"
    /\ db.exists /\ db.claude_session_id = "tokA"
    /\ answer = "tokB"

\* C26: a session in ERROR recovers when an input is enqueued: the enqueue
\* leaves an activation registered that has yet to start, and that
\* activation, when it starts, moves the status from ERROR to WORKING and
\* clears the stored error message.
C26_EnqueueOnErrorStarts ==
    [][/\ \A c \in Callers :
             (/\ cpc[c] = "enq_trigger" /\ cpc'[c] = "idle"
              /\ session.status = "ERROR")
             => /\ executions' # NoTask
                /\ task'[executions'].pc = "created"
       /\ \A t \in Tasks :
             (/\ task[t].pc = "created" /\ task'[t].pc = "load"
              /\ session.status = "ERROR")
             => session' = [status |-> "WORKING", error_message |-> "none"]]_vars

\* A PreToolUse callback that carries an external id was answered.
Answered ==
    /\ hook_out.answered
    /\ hook_in.hook_event_name = "PreToolUse"
    /\ hook_in.session_id # "none"

\* C27: when the external id of a PreToolUse callback matches no active or
\* pending entry, the hook still answers allow, adds neither project_id
\* nor source_instance_id, and returns the tool input as it came.
C27_MissIsNotFatal ==
    Answered /\ ~ctx.hit =>
        /\ ~hook_out.empty
        /\ hook_out.permissionDecision = "allow"
        /\ hook_out.updatedInput = hook_in.tool_input

\* A miss on a call whose tool input has only a message.
C27_Witness ==
    /\ Answered
    /\ ~ctx.hit
    /\ hook_in.tool_input = [NoParams EXCEPT !["message"] = "v1"]
    /\ hook_out.permissionDecision = "allow"
    /\ hook_out.updatedInput = hook_in.tool_input

\* The identity parameters of a tool input, and two callbacks that differ
\* at most in them.
IdKeys == {"project_id", "source_instance_id"}
Ids(u) == [k \in IdKeys |-> u[k]]
SameButIds(in1, in2) ==
    /\ in1.hook_event_name = in2.hook_event_name
    /\ in1.session_id = in2.session_id
    /\ \A k \in ToolKeys \ IdKeys : in1.tool_input[k] = in2.tool_input[k]

\* C28: the project_id and source_instance_id in updatedInput never depend
\* on what the agent supplied: the hook's answer to a callback carries the
\* same two values as its answer to any callback that differs only in the
\* agent-supplied project_id / source_instance_id.
C28_IdsNotFromAgent ==
    Answered =>
        \A in2 \in HookInputs :
            SameButIds(hook_in, in2) =>
                Ids(inject_session_context_hook(in2, ctx).updatedInput)
                    = Ids(hook_out.updatedInput)

\* C29: _executions is inserted into and deleted from only under the
\* session lock: a step that changes the entry is a lock section entered
\* with the lock free, or the step of the caller that holds the lock; no
\* step changes it while another coroutine holds the lock.
C29_MapChangedUnderLock ==
    [][executions' # executions =>
          \/ session_lock = Free
          \/ \E c \in Callers :
                /\ session_lock = c
                /\ cpc[c] = "int_await"
                /\ cpc'[c] = "int_status"]_vars

\* interrupt holds the lock and the activation's cleanup waits for it with
\* its entry still registered.
C29_Witness ==
    \E c \in Callers, t \in Tasks :
        /\ session_lock = c
        /\ task[t].pc = "cleanup"
        /\ executions = t

\* ------------------------------------------- the activation's db session
\* One activation from the moment its context is loaded.  Two coroutines
\* use context["db_session"]: the activation task, in the body of
\* _execute_session, and the query task, in _message_generator.  db_session
\* holds the operations that have been started on the handle and have not
\* returned yet.
MaxDbEvents == 2
MaxDbItems == 2

DbEventTypes == {"text", "tool_use", "other"}

\* The operation on the handle that the activation task performs at each of
\* its positions: _save_assistant_message, _save_tool_message, the final
\* commit, the rollback of the except branch and the close of the finally
\* block.
handle_op(pc) ==
    CASE pc = "text" -> "assistant_save"
      [] pc = "tool_use" -> "tool_save"
      [] pc = "commit" -> "commit"
      [] pc = "except" -> "rollback"
      [] pc = "close" -> "close"

\* _load_execution_context and Execution.run, line 58: the handle and its
\* lock exist, the query task is created and its generator waits for the
\* first item.
DbInit ==
    /\ CoreInit
    /\ BufIdle
    /\ RegIdle
    /\ SmIdle
    /\ AskIdle
    /\ InjIdle
    /\ db_lock = DbFree
    /\ db_session = {}
    /\ es = [pc |-> "iter", op |-> "none", events |-> 0, failed |-> FALSE,
             completion_event |-> FALSE]
    /\ mgen = [pc |-> "get", items |-> 0, failed |-> FALSE]

\* _execute_session, lines 222-241: run() yields the next event; a text
\* block and a tool call are saved first, any other event goes straight to
\* the broadcast.  The worker has output only after the generator has
\* yielded it a first message.
es_event(ty) ==
    /\ es.pc = "iter"
    /\ es.events < MaxDbEvents
    /\ mgen.items > 1 \/ (mgen.items = 1 /\ mgen.pc \in {"get", "done"})
    /\ es' = [es EXCEPT !.events = @ + 1,
                        !.pc = IF ty = "other" THEN "bcast" ELSE ty]
    /\ UNCHANGED <<db_lock, db_session, mgen, exceptDb>>

\* "async with db_lock" of _save_assistant_message (line 461), of
\* _save_tool_message (line 494) and of the final commit (line 249): the
\* lock is taken once it is free and the operation starts on the handle.
locked_start ==
    /\ es.pc \in {"text", "tool_use", "commit"}
    /\ es.op = "none"
    /\ db_lock = DbFree
    /\ db_lock' = "task"
    /\ db_session' = db_session \cup {[by |-> "task", op |-> handle_op(es.pc)]}
    /\ es' = [es EXCEPT !.op = handle_op(es.pc)]
    /\ UNCHANGED <<mgen, exceptDb>>

\* The operation returns or raises; leaving the "async with" block releases
\* the lock either way.  After a save the event is broadcast, after the
\* commit the finally block follows, and an exception goes to the except
\* branch.
locked_end(ok) ==
    /\ es.pc \in {"text", "tool_use", "commit"}
    /\ es.op # "none"
    /\ db_lock' = DbFree
    /\ db_session' = {o \in db_session : o.by # "task"}
    /\ es' = [es EXCEPT !.op = "none",
                        !.pc = IF ~ok THEN "except"
                               ELSE IF es.pc = "commit" THEN "close"
                               ELSE "bcast"]
    /\ UNCHANGED <<mgen, exceptDb>>

\* line 246: the event is broadcast; an exception of the broadcast leaves
\* the loop body while run() is suspended at its yield.
sse_broadcast(ok) ==
    /\ es.pc = "bcast"
    /\ es' = [es EXCEPT !.pc = IF ok THEN "iter" ELSE "except"]
    /\ UNCHANGED <<db_lock, db_session, mgen, exceptDb>>

\* Execution.run, lines 62-66: the worker's output stream ends or raises;
\* the finally block of run() sets the completion event and waits for the
\* query task.
run_stream_end(failed) ==
    /\ es.pc = "iter"
    /\ es' = [es EXCEPT !.pc = "join", !.failed = failed,
                        !.completion_event = TRUE]
    /\ UNCHANGED <<db_lock, db_session, mgen, exceptDb>>

\* Execution.run, line 67: the query task is joined; its exception, or the
\* one of the stream, reaches the except branch, otherwise the final commit
\* follows.
run_joined ==
    /\ es.pc = "join"
    /\ mgen.pc = "done"
    /\ es' = [es EXCEPT !.pc = IF es.failed \/ mgen.failed THEN "except"
                               ELSE "commit"]
    /\ UNCHANGED <<db_lock, db_session, mgen, exceptDb>>

\* _execute_session, lines 265-267 and 272-275: the except branch calls
\* db_session.rollback() and the finally block calls db_session.close()
\* directly; no "async with db_lock" surrounds either call.
unlocked_start ==
    /\ es.pc \in {"except", "close"}
    /\ es.op = "none"
    /\ db_session' = db_session \cup {[by |-> "task", op |-> handle_op(es.pc)]}
    /\ es' = [es EXCEPT !.op = handle_op(es.pc)]
    /\ UNCHANGED <<db_lock, mgen, exceptDb>>

\* The rollback returns and the finally block follows; the close returns
\* and the task leaves _execute_session.
unlocked_end ==
    /\ es.pc \in {"except", "close"}
    /\ es.op # "none"
    /\ db_session' = {o \in db_session : o.by # "task"}
    /\ es' = [es EXCEPT !.op = "none",
                        !.pc = IF es.pc = "except" THEN "close" ELSE "done"]
    /\ UNCHANGED <<db_lock, mgen, exceptDb>>

\* The loop body of _execute_session raised while run() was suspended at
\* its yield: nothing closes the generator there.  It is finalized once it
\* is collected (the event loop schedules its aclose()), and only then does
\* the finally block of run() set the completion event.
run_finalized ==
    /\ es.pc \in {"except", "close", "done"}
    /\ ~es.completion_event
    /\ es' = [es EXCEPT !.completion_event = TRUE]
    /\ UNCHANGED <<db_lock, db_session, mgen, exceptDb>>

\* _message_generator, lines 76 and 99-120: the first item is awaited with
\* a plain queue.get(); a later one arrives before the completion event is
\* seen.
mgen_get ==
    /\ mgen.pc = "get"
    /\ mgen.items < MaxDbItems
    /\ mgen.items = 0 \/ ~es.completion_event
    /\ mgen' = [mgen EXCEPT !.pc = "lock", !.items = @ + 1]
    /\ UNCHANGED <<db_lock, db_session, es, exceptDb>>

\* _save_and_broadcast_user_message, line 300: the lock is taken and the
\* save of the user message starts on the handle.
user_save_start ==
    /\ mgen.pc = "lock"
    /\ db_lock = DbFree
    /\ db_lock' = "query"
    /\ db_session' = db_session \cup {[by |-> "query", op |-> "user_save"]}
    /\ mgen' = [mgen EXCEPT !.pc = "saving"]
    /\ UNCHANGED <<es, exceptDb>>

\* lines 301-316: save and commit return and the generator goes on to
\* broadcast, yield and wait for the next item; or they raise and the query
\* task ends with the exception.
user_save_end(ok) ==
    /\ mgen.pc = "saving"
    /\ db_lock' = DbFree
    /\ db_session' = {o \in db_session : o.by # "query"}
    /\ mgen' = IF ok THEN [mgen EXCEPT !.pc = "get"]
               ELSE [mgen EXCEPT !.pc = "done", !.failed = TRUE]
    /\ UNCHANGED <<es, exceptDb>>

\* lines 114-117: the completion event is set, the loop breaks.
mgen_end ==
    /\ mgen.pc = "get"
    /\ mgen.items > 0
    /\ es.completion_event
    /\ mgen' = [mgen EXCEPT !.pc = "done"]
    /\ UNCHANGED <<db_lock, db_session, es, exceptDb>>

DbNext ==
    \/ \E ty \in DbEventTypes : es_event(ty)
    \/ locked_start
    \/ \E ok \in BOOLEAN : locked_end(ok)
    \/ \E ok \in BOOLEAN : sse_broadcast(ok)
    \/ \E failed \in BOOLEAN : run_stream_end(failed)
    \/ run_joined
    \/ unlocked_start
    \/ unlocked_end
    \/ run_finalized
    \/ mgen_get
    \/ user_save_start
    \/ \E ok \in BOOLEAN : user_save_end(ok)
    \/ mgen_end

DbSpec == DbInit /\ [][DbNext]_vars

\* C30: within one activation every save, the final commit and the rollback
\* on failure run on the activation's db session while their coroutine
\* holds the activation's db lock, so no two of them are in progress on the
\* handle at the same time.
LockedOps == {"user_save", "assistant_save", "tool_save", "commit", "rollback"}

C30_HandleUsedUnderDbLock ==
    /\ \A o \in db_session : o.op \in LockedOps => db_lock = o.by
    /\ Cardinality({o \in db_session : o.op \in LockedOps}) <= 1

\* C31: on each turn-complete marker the loop yields every remaining buffer
\* before the turn's final event, the final event carries has_more_messages
\* = (is_processing or queue non-empty) as they are at that point, and the
\* loop keeps reading the stream: a turn complete leaves the stream open.
TurnCompletes ==
    /\ Len(events') = Len(events) + 1
    /\ events'[Len(events')].kind = "complete"

MaxUnits == 3

\* A test that takes any value for an id.
is_captured_Always(id) == TRUE

\* line 167: "if captured_id:".
is_captured(id) == id \notin {NoToken, ""}

\* Execution.run starts _process_responses: claude_session_id_saved = False.
process_responses_start ==
    /\ capture.pc = "none"
    /\ client.live
    /\ capture' = [capture EXCEPT !.pc = "recv"]
    /\ UNCHANGED <<client, answer, smVars, exceptAsk>>

\* line 163-167: a message arrives; while nothing was saved the client is
\* asked for its session id, and a non-empty one is saved before the
\* message is converted.
receive_message ==
    /\ capture.pc = "recv"
    /\ client.live
    /\ capture.units < MaxUnits
    /\ LET id == client.session_id
           save == ~capture.saved /\ is_captured(id)
       IN capture' = [capture EXCEPT
                         !.units = @ + 1,
                         !.first = IF @ = 0 /\ id \notin {NoToken, ""}
                                   THEN capture.units + 1 ELSE @,
                         !.tok = IF save THEN id ELSE @,
                         !.pc = IF save THEN "save" ELSE "emit"]
    /\ UNCHANGED <<client, answer, smVars, exceptAsk>>

\* _save_claude_session_id_immediately, lines 261-290, and lines 168-169:
\* on a repository session of its own the entity is loaded, given the id
\* and committed; a missing session and any exception are logged.  Whatever
\* happened, claude_session_id_saved = True.
save_claude_session_id_immediately(ok) ==
    /\ capture.pc = "save"
    /\ db' = IF ok /\ db.exists
             THEN [db EXCEPT !.claude_session_id = capture.tok]
             ELSE db
    /\ capture' = [capture EXCEPT
                      !.pc = "emit", !.saved = TRUE, !.attempts = @ + 1,
                      !.at = capture.units,
                      !.committed = IF ok /\ db.exists THEN capture.tok ELSE @]
    /\ UNCHANGED <<client, answer, sm_lock, call, outcome, writes, bcasts,
                   numCalls, exceptAsk>>

\* lines 170-222: the events of the message are yielded.
emit_message_events ==
    /\ capture.pc = "emit"
    /\ capture' = [capture EXCEPT !.pc = "recv", !.emitted = @ + 1]
    /\ UNCHANGED <<client, answer, smVars, exceptAsk>>

\* What _update_session_status_after_execution persists, when its status
\* manager call persists anything.
after_execution(e, err, tok) ==
    Modified([op |-> "update_after_execution", entity |-> e, err |-> err,
              tok |-> tok, clear |-> FALSE])

\* _execute_session, lines 248-270, and interrupt, lines 109-129: the
\* activation ends.  "ok": the stream is exhausted, the activation's handle
\* is committed and the status update stores the id the client reports.
\* "error": the stream or the handling of an event raised; the activation's
\* handle is rolled back and the status update records the error.
\* "cancelled": interrupt removed the client and cancelled the task at the
\* await it was at, then updates the status with the id it finds persisted.
\* The status update is lost when the manager's call fails (persists).
activation_ends(how, persists) ==
    /\ capture.pc \in IF how = "ok" THEN {"recv"}
                      ELSE IF how = "error" THEN {"recv", "emit"}
                      ELSE {"recv", "save", "emit"}
    /\ client.live
    /\ capture' = [capture EXCEPT !.pc = "ended", !.end = how]
    /\ client' = IF how = "cancelled" THEN NoClient ELSE client
    /\ db' = IF ~persists \/ ~db.exists THEN db
             ELSE IF how = "error"
             THEN after_execution(db, CHOOSE e \in Errors : TRUE, NoToken)
             ELSE after_execution(db, NoError,
                                  get_claude_session_id(client', db, TRUE))
    /\ UNCHANGED <<answer, sm_lock, call, outcome, writes, bcasts, numCalls,
                   exceptAsk>>

CaptureNext ==
    \/ create_client
    \/ \E t \in ReportedTokens : client_reports(t)
    \/ process_responses_start
    \/ receive_message
    \/ \E ok \in BOOLEAN : save_claude_session_id_immediately(ok)
    \/ emit_message_events
    \/ \E how \in {"ok", "error", "cancelled"}, persists \in BOOLEAN :
          activation_ends(how, persists)

CaptureSpec == SmInit /\ [][CaptureNext]_vars

\* C32: the worker's external id is saved at the first message at which the
\* client reports a non-empty id, at most once in an activation and before
\* the events of that message are yielded; a save that fails leaves the
\* activation running; and an id that was saved is still the persisted one
\* when the activation has failed or was cancelled.
SaveReturns == capture.pc = "save" /\ capture'.pc = "emit"

C32_ImmediateSave ==
    [][/\ SaveReturns =>
            /\ capture.tok \notin {NoToken, ""}
            /\ capture.units = capture.first
            /\ capture.attempts = 0
            /\ capture'.emitted = capture.units - 1
            /\ capture'.end = "none"
            /\ capture'.committed # NoToken => db'.claude_session_id = capture.tok
       /\ capture'.attempts <= 1
       /\ capture'.first > 0 /\ capture'.emitted >= capture'.first
             => capture'.at = capture'.first
       /\ capture'.committed # NoToken /\ capture'.end \in {"none", "error", "cancelled"}
             => db'.claude_session_id = capture'.committed]_vars

\* The second message was the first with an id; tokB replaced the stored
\* tokA, and the activation then failed and recorded its error.
C32_Witness ==
    /\ capture.end = "error"
    /\ capture.first = 2
    /\ capture.at = 2
    /\ capture.committed = "tokB"
    /\ db.status = "ERROR"
    /\ db.claude_session_id = "tokB"

NothingUnderWay ==
    /\ executions = NoTask
    /\ \A c \in Callers : AtRest(c)
    /\ \A t \in Tasks :
         /\ ~Running(t)
         /\ gen[t].pc \in {"none", "done"}
         /\ exe[t].worker = "idle"
         /\ exe[t].unsubmitted = 0

C35_NoInputAtRest ==
    (/\ numInt = 0
     /\ \A c \in Callers : AtRest(c)
     /\ \A t \in Tasks : ~Running(t) /\ task[t].outcome \in {"none", "ok"})
    => queue = <<>>

\* ------------------------------------------------- items taken in the race
\* C36: an input that the generator's queue_task has taken out of the queue
\* is not dropped when the race ends: with no interrupt, the generator that
\* leaves its race still holds the item, to persist and forward it.
C36_TakenItemKept ==
    [][\A t \in Tasks :
         (numInt = 0 /\ gen[t].pc = "race" /\ gen[t].qdone /\ gen'[t].pc # "race")
         => gen'[t].item = gen[t].item]_vars

\* ------------------------------------------ eager promotion, two pending
\* C37: with two or more pending entries, an eager resolve of external id x
\* promotes an entry only if x is the id assigned to that entry's worker.
C37_EagerPromotesOwnWorker ==
    [][\A x \in ExternalIds :
         (/\ Len(pending) >= 2
          /\ x \notin DOMAIN registry
          /\ ret'.op = "eager" /\ ret'.arg = x /\ ret'.from = "pending"
          /\ x \in DOMAIN registry')
         => WorkerId(registry'[x]) = x]_vars

\* ------------------------------------------ the generator of an ended task
\* C38: once an activation has ended and its registry entry is released,
\* its message generator takes nothing more from the queue and saves nothing
\* more through the activation's persistence handle.
C38_EndedGeneratorSilent ==
    [][\A t \in Tasks :
         (Done(t) /\ executions # t /\ gen'[t] # gen[t])
         => (queue' = queue /\ persisted' = persisted)]_vars

\* ------------------------------------------------- the stored resume token
\* C40: the stored resume token changes only in two ways: a successful
\* update_after_execution that offers a non-empty token replaces it with
\* that token, and reset_to_idle with clear_claude_session set empties it.
\* update_to_working, update_to_interrupted, update_after_execution with an
\* error or without a token, and reset_to_idle without the flag leave it.
C40_TokenKept ==
    [][(db.exists /\ db'.claude_session_id # db.claude_session_id)
       => \E c \in SmCallers :
            \/ /\ Commits(c, "reset_to_idle")
               /\ call[c].clear
               /\ db'.claude_session_id = NoToken
            \/ /\ Commits(c, "update_after_execution")
               /\ call[c].err = NoError
               /\ call[c].tok \notin {NoToken, ""}
               /\ db'.claude_session_id = call[c].tok]_vars

\* A session with a stored token went through a failed activation and an
\* interrupt-style update, and the token is still there.
C40_Witness ==
    /\ writes = <<"ERROR", "INTERRUPTED">>
    /\ \A c \in SmCallers : call[c].pc = "idle"
    /\ db.claude_session_id = "tokA"

====
